---- MODULE Spec2Model ----
(***************************************************************************)
(* Invoice extraction and matching engine of the Inventory Tracker:        *)
(* parse_invoice_items and match_items_to_inventory of ocr_module.py, as   *)
(* the upload handler of backend_api.py runs them.                         *)
(*                                                                         *)
(* A Python str is a sequence of one-character strings, so that the        *)
(* regular expressions and the str methods of the code are computed        *)
(* character by character.                                                 *)
(***************************************************************************)
EXTENDS Integers, Sequences, FiniteSets, TLC

(***************************************************************************)
(* Bounds of the model                                                     *)
(***************************************************************************)
\* lines of the OCR text of one upload
MaxLines == 2
\* rows of the item table when the upload handler reads it
MaxInv == 2

(***************************************************************************)
(* Characters and the str methods the code uses                            *)
(***************************************************************************)
LowerLetters ==
    <<"a","b","c","d","e","f","g","h","i","j","k","l","m","n","o","p","q","r","s","t","u","v","w","x","y","z">>
UpperLetters ==
    <<"A","B","C","D","E","F","G","H","I","J","K","L","M","N","O","P","Q","R","S","T","U","V","W","X","Y","Z">>
DigitChars == <<"0","1","2","3","4","5","6","7","8","9">>

Range(f) == {f[i] : i \in DOMAIN f}

DigitSet == Range(DigitChars)
UpperSet == Range(UpperLetters)
LetterSet == Range(LowerLetters) \cup UpperSet

\* \s of the re module, over the characters the texts contain
SpaceSet == {" ", "\t", "\n", "\r"}

IsDigit(c) == c \in DigitSet
IsLetter(c) == c \in LetterSet
IsSpace(c) == c \in SpaceSet

MinOf(S) == CHOOSE x \in S : \A y \in S : x <= y

\* s[a..b] as a sequence (empty when b < a)
Slice(s, a, b) == [i \in 1..(b - a + 1) |-> s[a + i - 1]]

\* str.lower()
LowerChar(c) ==
    IF c \in UpperSet
    THEN LowerLetters[CHOOSE i \in 1..26 : UpperLetters[i] = c]
    ELSE c
Lower(s) == [i \in 1..Len(s) |-> LowerChar(s[i])]

\* first index j >= i with j past the end of s or s[j] outside the class C
RECURSIVE RunEnd(_, _, _)
RunEnd(s, i, C) ==
    IF i > Len(s) \/ s[i] \notin C THEN i ELSE RunEnd(s, i + 1, C)

\* first index j >= i with j past the end of s or s[j] in the class C
RECURSIVE RunEndNot(_, _, _)
RunEndNot(s, i, C) ==
    IF i > Len(s) \/ s[i] \in C THEN i ELSE RunEndNot(s, i + 1, C)

\* last index j <= i with j before the start of s or s[j] outside the class C
RECURSIVE RunStart(_, _, _)
RunStart(s, i, C) ==
    IF i < 1 \/ s[i] \notin C THEN i ELSE RunStart(s, i - 1, C)
\* str.strip()
Strip(s) == Slice(s, RunEnd(s, 1, SpaceSet), RunStart(s, Len(s), SpaceSet))

\* sub in s
IsIn(sub, s) ==
    \E i \in 0..(Len(s) - Len(sub)) : \A j \in 1..Len(sub) : s[i + j] = sub[j]

\* s.startswith-style test at position i: sub occurs in s at i, case-insensitively
\* when ic is TRUE (re.IGNORECASE)
OccursAt(sub, s, i, ic) ==
    /\ i >= 1
    /\ i + Len(sub) - 1 <= Len(s)
    /\ \A j \in 1..Len(sub) :
          IF ic THEN LowerChar(s[i + j - 1]) = LowerChar(sub[j])
                ELSE s[i + j - 1] = sub[j]

\* str.isdigit()
IsDigitStr(s) == Len(s) > 0 /\ \A i \in 1..Len(s) : IsDigit(s[i])


\* str.split(): the words between runs of whitespace
RECURSIVE SplitWords(_)
SplitWords(s) ==
    LET a == RunEnd(s, 1, SpaceSet)
        b == RunEndNot(s, a, SpaceSet)
    IN IF a > Len(s) THEN <<>>
       ELSE <<Slice(s, a, b - 1)>> \o SplitWords(Slice(s, b, Len(s)))

\* sep.join(parts)
RECURSIVE Join(_, _)
Join(parts, sep) ==
    IF parts = <<>> THEN <<>>
    ELSE IF Len(parts) = 1 THEN parts[1]
    ELSE parts[1] \o sep \o Join(Tail(parts), sep)

\* str.split('\n')
RECURSIVE SplitLines(_)
SplitLines(s) ==
    LET e == RunEndNot(s, 1, {"\n"})
    IN IF e > Len(s) THEN <<s>>
       ELSE <<Slice(s, 1, e - 1)>> \o SplitLines(Slice(s, e + 1, Len(s)))

\* the value of a run of decimal digits
RECURSIVE DigitsValue(_)
DigitsValue(s) ==
    IF s = <<>> THEN 0
    ELSE 10 * DigitsValue(Slice(s, 1, Len(s) - 1))
         + ((CHOOSE i \in 1..10 : DigitChars[i] = s[Len(s)]) - 1)

RECURSIVE Pow10(_)
Pow10(n) == IF n = 0 THEN 1 ELSE 10 * Pow10(n - 1)

RECURSIVE Gcd(_, _)
Gcd(a, b) == IF b = 0 THEN a ELSE Gcd(b, a % b)

\* a rational number in lowest terms; Python floats of the sizes met here
\* compare as the rationals they stand for
Frac(n, d) == LET g == Gcd(n, d) IN [num |-> n \div g, den |-> d \div g]
FracLt(a, b) == a.num * b.den < b.num * a.den
FracLe(a, b) == a.num * b.den <= b.num * a.den

\* float(text) for text of the shape \d+(\.\d+)?
ParseFloat(s) ==
    LET e == RunEndNot(s, 1, {"."})
        ip == Slice(s, 1, e - 1)
        fp == Slice(s, e + 1, Len(s))
    IN Frac(DigitsValue(ip) * Pow10(Len(fp)) + DigitsValue(fp), Pow10(Len(fp)))

(***************************************************************************)
(* Module constants of ocr_module.py                                       *)
(***************************************************************************)
\* keywords that indicate an item line
ITEM_KEYWORDS ==
    <<<<"i","t","e","m">>,
      <<"p","r","o","d","u","c","t">>,
      <<"d","e","s","c","r","i","p","t","i","o","n">>,
      <<"q","t","y">>,
      <<"q","u","a","n","t","i","t","y">>,
      <<"u","n","i","t">>,
      <<"p","r","i","c","e">>,
      <<"a","m","o","u","n","t">>,
      <<"t","o","t","a","l">>,
      <<"s","u","b","t","o","t","a","l">>,
      <<"e","a","c","h">>,
      <<"e","a">>,
      <<"p","c","s">>,
      <<"p","i","e","c","e","s">>,
      <<"o","r","d","e","r">>>>

\* restaurant-specific item keywords
RESTAURANT_ITEM_KEYWORDS ==
    <<<<"f","o","o","d">>,
      <<"b","e","v","e","r","a","g","e">>,
      <<"d","r","i","n","k">>,
      <<"m","e","a","l">>,
      <<"a","p","p","e","t","i","z","e","r">>,
      <<"e","n","t","r","e","e">>,
      <<"d","e","s","s","e","r","t">>,
      <<"s","i","d","e">>,
      <<"s","a","u","c","e">>,
      <<"t","o","p","p","i","n","g">>,
      <<"i","n","g","r","e","d","i","e","n","t">>,
      <<"p","r","o","d","u","c","e">>,
      <<"m","e","a","t">>,
      <<"d","a","i","r","y">>,
      <<"s","e","a","f","o","o","d">>,
      <<"v","e","g","e","t","a","b","l","e">>,
      <<"f","r","u","i","t">>,
      <<"g","r","a","i","n">>,
      <<"s","p","i","c","e">>,
      <<"h","e","r","b">>,
      <<"o","i","l">>>>

\* keywords that typically indicate non-item lines
NON_ITEM_KEYWORDS ==
    <<<<"i","n","v","o","i","c","e">>,
      <<"b","i","l","l">>,
      <<"r","e","c","e","i","p","t">>,
      <<"d","a","t","e">>,
      <<"t","i","m","e">>,
      <<"c","u","s","t","o","m","e","r">>,
      <<"a","d","d","r","e","s","s">>,
      <<"p","h","o","n","e">>,
      <<"e","m","a","i","l">>,
      <<"t","a","x">>,
      <<"v","a","t">>,
      <<"d","i","s","c","o","u","n","t">>,
      <<"s","h","i","p","p","i","n","g">>,
      <<"h","a","n","d","l","i","n","g">>,
      <<"p","a","y","m","e","n","t">>,
      <<"m","e","t","h","o","d">>,
      <<"c","a","r","d">>,
      <<"c","a","s","h">>,
      <<"c","h","e","c","k">>,
      <<"b","a","l","a","n","c","e">>,
      <<"d","u","e">>,
      <<"p","a","i","d">>,
      <<"t","h","a","n","k">>,
      <<"y","o","u">>,
      <<"r","e","t","u","r","n">>,
      <<"p","o","l","i","c","y">>,
      <<"w","a","r","r","a","n","t","y">>,
      <<"t","e","r","m","s">>,
      <<"c","o","n","d","i","t","i","o","n","s">>,
      <<"s","t","r","e","e","t">>,
      <<"a","v","e","n","u","e">>,
      <<"r","o","a","d">>,
      <<"s","u","i","t","e">>,
      <<"a","p","t">>,
      <<"s","k","y"," ","#">>,
      <<"t","e","l">>,
      <<"f","a","x">>>>

\* keywords that definitely indicate non-item lines
DEFINITE_NON_ITEM_KEYWORDS ==
    <<<<"w","w","w">>,
      <<"h","t","t","p">>,
      <<".","c","o","m">>,
      <<".","n","e","t">>,
      <<".","o","r","g">>,
      <<"@">>,
      <<"t","e","l",":">>,
      <<"f","a","x",":">>,
      <<"p","a","g","e">>,
      <<"o","f">>,
      <<"i","n","v","o","i","c","e","#">>,
      <<"o","r","d","e","r","#">>,
      <<"c","u","s","t","o","m","e","r","#">>,
      <<"a","c","c","o","u","n","t","#">>,
      <<"r","e","f","#">>,
      <<"p","o","#">>>>

\* any(keyword.lower() in line.lower() for keyword in keywords)
AnyKeywordIn(keywords, line) ==
    \E n \in 1..Len(keywords) : IsIn(Lower(keywords[n]), Lower(line))

(***************************************************************************)
(* Regular expressions.  re.search returns the leftmost match; a greedy    *)
(* quantifier takes the longest run for which the rest of the pattern      *)
(* still matches.  A match is [ok, start, end, groups]; a group that took  *)
(* no part in the match is None.                                           *)
(***************************************************************************)
None == <<"None">>
NoMatch == [ok |-> FALSE, start |-> 0, end |-> 0, groups |-> <<>>]
Found(a, b, gs) == [ok |-> TRUE, start |-> a, end |-> b, groups |-> gs]

\* the character at i, or no character outside the string
Ch(s, i) == IF i \in 1..Len(s) THEN s[i] ELSE ""

AllIn(s, a, b, C) == \A i \in a..b : s[i] \in C

\* [A-Za-z0-9\s\-\'\"\&\,\.]
NameSet == LetterSet \cup DigitSet \cup SpaceSet \cup {"-", "'", "\"", "&", ",", "."}
IsNameCh(c) == c \in NameSet

\* quantity_pattern (\d+(?:\.\d+)?) at a digit i: the index after the match
QuantityEnd(s, i) ==
    LET e == RunEnd(s, i, DigitSet)
    IN IF Ch(s, e) = "." /\ IsDigit(Ch(s, e + 1))
       THEN RunEnd(s, e + 1, DigitSet)
       ELSE e

\* \$\d+\.\d+ at p: the index after the match, 0 when there is none
DollarAmountEnd(s, p) ==
    IF Ch(s, p) = "$" /\ IsDigit(Ch(s, p + 1))
    THEN LET d == RunEnd(s, p + 1, DigitSet)
         IN IF Ch(s, d) = "." /\ IsDigit(Ch(s, d + 1))
            THEN RunEnd(s, d + 1, DigitSet)
            ELSE 0
    ELSE 0

\* PRICE_PATTERN  \$?\s*(\d{1,3}(?:,\d{3})*(?:\.\d{2})?)  at the digit d:
\* the index after the match
RECURSIVE ThousandsEnd(_, _)
ThousandsEnd(s, e) ==
    IF Ch(s, e) = "," /\ IsDigit(Ch(s, e + 1)) /\ IsDigit(Ch(s, e + 2))
       /\ IsDigit(Ch(s, e + 3))
    THEN ThousandsEnd(s, e + 4)
    ELSE e
PriceNumberEnd(s, d) ==
    LET r == RunEnd(s, d, DigitSet)
        e1 == IF r - d > 3 THEN d + 3 ELSE r
        e2 == ThousandsEnd(s, e1)
    IN IF Ch(s, e2) = "." /\ IsDigit(Ch(s, e2 + 1)) /\ IsDigit(Ch(s, e2 + 2))
       THEN e2 + 3
       ELSE e2
PriceAt(s, i) ==
    LET a == IF Ch(s, i) = "$" THEN i + 1 ELSE i
        d == RunEnd(s, a, SpaceSet)
    IN IF IsDigit(Ch(s, d))
       THEN LET e == PriceNumberEnd(s, d)
            IN Found(i, e - 1, <<Slice(s, d, e - 1)>>)
       ELSE NoMatch
\* re.search(PRICE_PATTERN, line): the match at the least start position
RECURSIVE PriceSearch(_, _)
PriceSearch(s, i) ==
    IF i > Len(s) THEN NoMatch
    ELSE IF PriceAt(s, i).ok THEN PriceAt(s, i)
    ELSE PriceSearch(s, i + 1)
PRICE_PATTERN(s) == PriceSearch(s, 1)

\* phone_pattern  \(?\d{3}\)?[-.\s]?\d{3}[-.\s]?\d{4}
IsPhoneSep(c) == c \in {"-", "."} \/ IsSpace(c)
PhoneAt(s, i) ==
    \E a \in {i} \cup (IF Ch(s, i) = "(" THEN {i + 1} ELSE {}) :
      /\ IsDigit(Ch(s, a)) /\ IsDigit(Ch(s, a + 1)) /\ IsDigit(Ch(s, a + 2))
      /\ \E b \in {a + 3} \cup (IF Ch(s, a + 3) = ")" THEN {a + 4} ELSE {}) :
         \E c \in {b} \cup (IF IsPhoneSep(Ch(s, b)) THEN {b + 1} ELSE {}) :
           /\ IsDigit(Ch(s, c)) /\ IsDigit(Ch(s, c + 1)) /\ IsDigit(Ch(s, c + 2))
           /\ \E d \in {c + 3} \cup (IF IsPhoneSep(Ch(s, c + 3)) THEN {c + 4} ELSE {}) :
                /\ IsDigit(Ch(s, d)) /\ IsDigit(Ch(s, d + 1))
                /\ IsDigit(Ch(s, d + 2)) /\ IsDigit(Ch(s, d + 3))
phone_pattern(s) == \E i \in 1..Len(s) : PhoneAt(s, i)

\* the unit alternation of the quantity+unit shape of filter_item_lines, in order
FilterUnits ==
    <<<<"k","g">>,
      <<"g">>,
      <<"l","b">>,
      <<"o","z">>,
      <<"m","l">>,
      <<"l">>,
      <<"p","c","s">>,
      <<"e","a">>,
      <<"e","a","c","h">>,
      <<"p","a","c","k">>,
      <<"b","o","t","t","l","e">>,
      <<"j","a","r">>,
      <<"c","a","n">>,
      <<"b","a","g">>>>

\* the road-type alternation of address_pattern, in order
RoadWords ==
    <<<<"s","t","r","e","e","t">>,
      <<"s","t">>,
      <<"a","v","e","n","u","e">>,
      <<"a","v","e">>,
      <<"r","o","a","d">>,
      <<"r","d">>,
      <<"b","o","u","l","e","v","a","r","d">>,
      <<"b","l","v","d">>,
      <<"l","a","n","e">>,
      <<"l","n">>,
      <<"d","r","i","v","e">>,
      <<"d","r">>,
      <<"c","o","u","r","t">>,
      <<"c","t">>,
      <<"p","l","a","z","a">>,
      <<"p","l","z">>,
      <<"s","q","u","a","r","e">>,
      <<"s","q">>>>

\* address_pattern  \d+\s+[A-Za-z\s]+(?:street|st|...), re.IGNORECASE
address_pattern(s) ==
    \E d \in 1..Len(s) :
      /\ IsDigit(s[d])
      /\ IsSpace(Ch(s, d + 1))
      /\ \E r \in (d + 3)..Len(s) :
           /\ AllIn(s, d + 2, r - 1, LetterSet \cup SpaceSet)
           /\ \E n \in 1..Len(RoadWords) : OccursAt(RoadWords[n], s, r, TRUE)

\* \d+\s*(?:kg|g|lb|oz|ml|l|pcs|ea|each|pack|bottle|jar|can|bag), re.IGNORECASE
QuantityUnitShape(s) ==
    \E d \in 1..Len(s) :
      /\ IsDigit(s[d])
      /\ \E n \in 1..Len(FilterUnits) :
           OccursAt(FilterUnits[n], s, RunEnd(s, d + 1, SpaceSet), TRUE)

(***************************************************************************)
(* filter_item_lines                                                       *)
(***************************************************************************)
\* a loop body without the phone-number test of line 449
KeepsLineWithPhone(raw) ==
    LET line == Strip(raw)
    IN /\ line # <<>>
       /\ ~(Len(line) < 3)
       /\ ~address_pattern(line)
       /\ ~AnyKeywordIn(DEFINITE_NON_ITEM_KEYWORDS, line)
       /\ ~(/\ AnyKeywordIn(NON_ITEM_KEYWORDS, line)
            /\ ~AnyKeywordIn(ITEM_KEYWORDS \o RESTAURANT_ITEM_KEYWORDS, line))
       /\ \/ AnyKeywordIn(ITEM_KEYWORDS \o RESTAURANT_ITEM_KEYWORDS, line)
          \/ QuantityUnitShape(line)
          \/ PRICE_PATTERN(line).ok

\* the body of the loop for one line: TRUE when the stripped line is appended
KeepsLine(raw) ==
    LET line == Strip(raw)
    IN /\ line # <<>>
       /\ ~(Len(line) < 3)
       /\ ~phone_pattern(line)
       /\ ~address_pattern(line)
       /\ ~AnyKeywordIn(DEFINITE_NON_ITEM_KEYWORDS, line)
       /\ ~(/\ AnyKeywordIn(NON_ITEM_KEYWORDS, line)
            /\ ~AnyKeywordIn(ITEM_KEYWORDS \o RESTAURANT_ITEM_KEYWORDS, line))
       /\ \/ AnyKeywordIn(ITEM_KEYWORDS \o RESTAURANT_ITEM_KEYWORDS, line)
          \/ QuantityUnitShape(line)
          \/ PRICE_PATTERN(line).ok

RECURSIVE filter_item_lines(_)
filter_item_lines(lines) ==
    IF lines = <<>> THEN <<>>
    ELSE (IF KeepsLine(lines[1]) THEN <<Strip(lines[1])>> ELSE <<>>)
         \o filter_item_lines(Tail(lines))

(***************************************************************************)
(* restaurant_patterns, searched with re.IGNORECASE                        *)
(***************************************************************************)
\* the alternation of unit_pattern, in order
unit_pattern ==
    <<<<"e","a">>,
      <<"p","c","s">>,
      <<"k","g">>,
      <<"l","b">>,
      <<"g">>,
      <<"o","z">>,
      <<"m","l">>,
      <<"l">>,
      <<"b","o","x">>,
      <<"c","a","s","e">>,
      <<"p","a","c","k">>,
      <<"b","o","t","t","l","e">>,
      <<"j","a","r">>,
      <<"c","a","n">>,
      <<"b","a","g">>,
      <<"e","a","c","h">>,
      <<"p","i","e","c","e">>,
      <<"p","o","u","n","d">>,
      <<"o","u","n","c","e">>,
      <<"g","a","l","l","o","n">>,
      <<"q","u","a","r","t">>,
      <<"d","o","z","e","n">>,
      <<"d","z">>>>

\* A greedy name group gives characters back one at a time until the rest of
\* the pattern matches: LastAt(k, s, i, p) is the greatest position p' <= p,
\* above i, at which the rest of pattern k matches, 0 when there is none.
\* 1: ([A-Za-z0-9\s\-\'\"\&\,\.]+)\s*x\s*(\d+(?:\.\d+)?)
\*    the rest from p: x, whitespace, a digit
\* 3: ([A-Za-z0-9\s\-\'\"\&\,\.]+)\s*\-\s*\$\d+\.\d+
\*    the rest from p: -, whitespace, a dollar amount
\* 4: ([A-Za-z0-9\s\-\'\"\&\,\.]+)\s+\$\d+\.\d+
\*    the rest from p: one whitespace character, a dollar amount
\* 5: ([A-Za-z0-9\s\-\'\"\&\,\.]+)\s+(\d+(?:\.\d+)?)\s*(unit_pattern)?
\*    the rest from p: one whitespace character, a digit
RestAt(k, s, p) ==
    CASE k = 1 -> LowerChar(s[p]) = "x" /\ IsDigit(Ch(s, RunEnd(s, p + 1, SpaceSet)))
      [] k = 3 -> s[p] = "-" /\ DollarAmountEnd(s, RunEnd(s, p + 1, SpaceSet)) # 0
      [] k = 4 -> IsSpace(s[p]) /\ DollarAmountEnd(s, p + 1) # 0
      [] k = 5 -> IsSpace(s[p]) /\ IsDigit(Ch(s, p + 1))

RECURSIVE LastAt(_, _, _, _)
LastAt(k, s, i, p) ==
    IF p <= i THEN 0
    ELSE IF p <= Len(s) /\ RestAt(k, s, p) THEN p
    ELSE LastAt(k, s, i, p - 1)

\* the end of the name group that starts at i: the position before which the
\* rest of pattern k matches, 0 when the pattern does not match at i
NameGroupEnd(k, s, i) ==
    IF ~IsNameCh(s[i]) THEN 0 ELSE LastAt(k, s, i, RunEnd(s, i, NameSet))

NameTimesQtyAt(s, i) ==
    LET k == NameGroupEnd(1, s, i)
        q == RunEnd(s, k + 1, SpaceSet)
        e == QuantityEnd(s, q)
    IN IF k = 0 THEN NoMatch
       ELSE Found(i, e - 1, <<Slice(s, i, k - 1), Slice(s, q, e - 1)>>)

\* 2: (\d+(?:\.\d+)?)\s*x\s*([A-Za-z0-9\s\-\'\"\&\,\.]+)
QtyTimesNameAt(s, i) ==
    IF ~IsDigit(s[i]) THEN NoMatch
    ELSE LET qe == QuantityEnd(s, i)
             w == RunEnd(s, qe, SpaceSet)
             v == RunEnd(s, w + 1, SpaceSet)
             e == RunEnd(s, v, NameSet)
         IN IF LowerChar(Ch(s, w)) # "x" THEN NoMatch
            ELSE IF IsNameCh(Ch(s, v))
                 THEN Found(i, e - 1, <<Slice(s, i, qe - 1), Slice(s, v, e - 1)>>)
            \* \s* gives its last whitespace character back to the name group
            ELSE IF v > w + 1
                 THEN Found(i, v - 1, <<Slice(s, i, qe - 1), Slice(s, v - 1, v - 1)>>)
            ELSE NoMatch

NameDashPriceAt(s, i) ==
    LET k == NameGroupEnd(3, s, i)
    IN IF k = 0 THEN NoMatch
       ELSE Found(i, DollarAmountEnd(s, RunEnd(s, k + 1, SpaceSet)) - 1,
                  <<Slice(s, i, k - 1)>>)

NamePriceAt(s, i) ==
    LET p == NameGroupEnd(4, s, i)
    IN IF p = 0 THEN NoMatch
       ELSE Found(i, DollarAmountEnd(s, p + 1) - 1, <<Slice(s, i, p - 1)>>)

\* the unit group takes the first alternative of unit_pattern, in list order,
\* that occurs after the quantity: its length, 0 when none occurs
RECURSIVE UnitLenAt(_, _, _)
UnitLenAt(s, u, n) ==
    IF n > Len(unit_pattern) THEN 0
    ELSE IF OccursAt(unit_pattern[n], s, u, TRUE) THEN Len(unit_pattern[n])
    ELSE UnitLenAt(s, u, n + 1)

NameQtyUnitAt(s, i) ==
    LET p == NameGroupEnd(5, s, i)
        qe == QuantityEnd(s, p + 1)
        u == RunEnd(s, qe, SpaceSet)
        ul == UnitLenAt(s, u, 1)
    IN IF p = 0 THEN NoMatch
       ELSE Found(i, u + ul - 1,
                  <<Slice(s, i, p - 1), Slice(s, p + 1, qe - 1),
                    IF ul = 0 THEN None ELSE Slice(s, u, u + ul - 1)>>)

\* 6: ^\s*\d+\.\s+([A-Za-z0-9\s\-\'\"\&\,\.]+)
NumberedItemAt(s, i) ==
    LET a == RunEnd(s, 1, SpaceSet)
        d == RunEnd(s, a, DigitSet)
        v == RunEnd(s, d + 1, SpaceSet)
        e == RunEnd(s, v, NameSet)
    IN IF i # 1 \/ ~IsDigit(Ch(s, a)) \/ Ch(s, d) # "." \/ ~IsSpace(Ch(s, d + 1))
       THEN NoMatch
       ELSE IF IsNameCh(Ch(s, v)) THEN Found(1, e - 1, <<Slice(s, v, e - 1)>>)
       ELSE IF v > d + 2 THEN Found(1, v - 1, <<Slice(s, v - 1, v - 1)>>)
       ELSE NoMatch

PatternAt(k, s, i) ==
    CASE k = 1 -> NameTimesQtyAt(s, i)
      [] k = 2 -> QtyTimesNameAt(s, i)
      [] k = 3 -> NameDashPriceAt(s, i)
      [] k = 4 -> NamePriceAt(s, i)
      [] k = 5 -> NameQtyUnitAt(s, i)
      [] k = 6 -> NumberedItemAt(s, i)

\* re.search: the match at the least start position that has one
RECURSIVE ReSearch(_, _, _)
ReSearch(k, s, i) ==
    IF i > Len(s) THEN NoMatch
    ELSE IF PatternAt(k, s, i).ok THEN PatternAt(k, s, i)
    ELSE ReSearch(k, s, i + 1)

NumPatterns == 6

\* re.search(restaurant_patterns[k], line, re.IGNORECASE)
restaurant_patterns(k, line) == ReSearch(k, line, 1)

\* What the dispatch of parse_invoice_items reads off the text of each pattern.
\* 'x' in pattern: the letter x occurs in the text of patterns 1 and 2 (the
\* literal x) and of pattern 5 (the alternative "box" of unit_pattern)
PatternHasX(k) == k \in {1, 2, 5}
\* pattern.startswith('(\\d+'): pattern 2 begins with quantity_pattern
PatternStartsWithQuantity(k) == k = 2
\* '\\$' in pattern
PatternHasDollar(k) == k \in {3, 4}
\* pattern.startswith(r'^\s*\d+\.\s+')
PatternStartsWithOrdinal(k) == k = 6

(***************************************************************************)
(* extract_vendor_info                                                     *)
(***************************************************************************)
\* keywords that might indicate vendor information
vendor_keywords ==
    <<<<"v","e","n","d","o","r">>,
      <<"s","u","p","p","l","i","e","r">>,
      <<"r","e","s","t","a","u","r","a","n","t">>,
      <<"c","a","f","e">>,
      <<"f","r","o","m">>,
      <<"b","i","l","l"," ","f","r","o","m">>,
      <<"i","n","v","o","i","c","e"," ","f","r","o","m">>,
      <<"c","o","m","p","a","n","y">>,
      <<"b","u","s","i","n","e","s","s">>,
      <<"s","t","o","r","e">>,
      <<"s","h","o","p">>,
      <<"m","a","r","k","e","t">>>>

\* keywords that might indicate invoice number
invoice_keywords ==
    <<<<"i","n","v","o","i","c","e">>,
      <<"i","n","v","o","i","c","e"," ","#">>,
      <<"i","n","v","o","i","c","e"," ","n","o">>,
      <<"i","n","v","o","i","c","e"," ","n","u","m","b","e","r">>,
      <<"r","e","c","e","i","p","t">>,
      <<"r","e","c","e","i","p","t"," ","#">>,
      <<"o","r","d","e","r">>,
      <<"o","r","d","e","r"," ","#">>>>

\* lines[:10] and lines[:5]
VendorScanLines == 10
VendorFallbackLines == 5

\* line.split(keyword, 1): the text before and after the first occurrence
SplitOnce(line, keyword) ==
    LET I == {i \in 0..(Len(line) - Len(keyword)) :
                \A j \in 1..Len(keyword) : line[i + j] = keyword[j]}
    IN IF I = {} THEN <<line>>
       ELSE <<Slice(line, 1, MinOf(I)), Slice(line, MinOf(I) + Len(keyword) + 1, Len(line))>>

\* re.search(r'[A-Za-z0-9\-]+', s): the matched text, None without a match
TokenSet == LetterSet \cup DigitSet \cup {"-"}
FirstToken(s) ==
    LET a == RunEndNot(s, 1, TokenSet)
    IN IF a > Len(s) THEN None ELSE Slice(s, a, RunEnd(s, a, TokenSet) - 1)

\* the vendor-keyword loop on line i: the name it assigns, None when it assigns
\* nothing
VendorNameOfLine(lines, i) ==
    LET line == lines[i]
        After(n) == LET parts == SplitOnce(line, vendor_keywords[n])
                    IN IF Len(parts) > 1 THEN Strip(parts[2]) ELSE <<>>
        NextLine == IF i < Len(lines) THEN Strip(lines[i + 1]) ELSE <<>>
        Hits == {n \in 1..Len(vendor_keywords) :
                   /\ IsIn(vendor_keywords[n], Lower(line))
                   /\ (After(n) # <<>> \/ NextLine # <<>>)}
    IN IF Hits = {} THEN None
       ELSE IF After(MinOf(Hits)) # <<>> THEN After(MinOf(Hits)) ELSE NextLine

\* the invoice-keyword loop on line i: the number it assigns, None when it
\* assigns nothing
InvoiceNumberOfLine(lines, i) ==
    LET line == lines[i]
        After(n) == LET parts == SplitOnce(line, invoice_keywords[n])
                    IN IF Len(parts) > 1 THEN parts[2] ELSE <<>>
        Hits == {n \in 1..Len(invoice_keywords) :
                   /\ IsIn(invoice_keywords[n], Lower(line))
                   /\ Strip(After(n)) # <<>>}
    IN IF Hits = {} THEN None ELSE FirstToken(After(MinOf(Hits)))

\* the scan of the first lines: the last assignment wins
RECURSIVE VendorScan(_, _, _)
VendorScan(lines, i, info) ==
    IF i > Len(lines) \/ i > VendorScanLines THEN info
    ELSE LET nm == VendorNameOfLine(lines, i)
             nr == InvoiceNumberOfLine(lines, i)
         IN VendorScan(lines, i + 1,
                       [name |-> IF nm = None THEN info.name ELSE nm,
                        invoice_number |-> IF nr = None THEN info.invoice_number ELSE nr])

extract_vendor_info(lines) ==
    LET info == VendorScan(lines, 1, [name |-> <<>>, invoice_number |-> <<>>])
        F == {i \in 1..Len(lines) :
                /\ i <= VendorFallbackLines
                /\ Strip(lines[i]) # <<>>
                /\ ~\E n \in 1..Len(invoice_keywords) :
                       IsIn(invoice_keywords[n], Lower(lines[i]))}
    IN IF info.name # <<>> \/ F = {} THEN info
       ELSE [info EXCEPT !.name = Strip(lines[MinOf(F)])]

(***************************************************************************)
(* parse_invoice_items: extraction of one candidate per item line          *)
(***************************************************************************)
\* confidence of a pattern match, of the generic extraction with a quantity
\* and of the whole-line fallback, in hundredths
PatternConfidence == 80
GenericConfidence == 60
FallbackConfidence == 50

\* re.sub(r'\s+', ' ', name)
RECURSIVE CollapseSpaces(_)
CollapseSpaces(s) ==
    IF s = <<>> THEN <<>>
    ELSE IF IsSpace(s[1])
         THEN <<" ">> \o CollapseSpaces(Slice(s, RunEnd(s, 1, SpaceSet), Len(s)))
         ELSE <<s[1]>> \o CollapseSpaces(Tail(s))

\* re.sub(r'^\d+\.\s*', '', name)
StripOrdinal(s) ==
    LET d == RunEnd(s, 1, DigitSet)
    IN IF d > 1 /\ Ch(s, d) = "."
       THEN Slice(s, RunEnd(s, d + 1, SpaceSet), Len(s))
       ELSE s

\* the clean-up of the item name
CleanName(name) == StripOrdinal(Strip(CollapseSpaces(name)))

\* not (len(name) < 2 or name.isdigit())
NameOk(name) == ~(Len(name) < 2 \/ IsDigitStr(name))

\* the price of the line: group(0) of the first PRICE_PATTERN match, None
\* (no 'price' key) without a match
PriceOf(line) ==
    LET m == PRICE_PATTERN(line)
    IN IF m.ok THEN Slice(line, m.start, m.end) ELSE None

Item(name, quantity, unit, vendor, confidence, line) ==
    [name |-> name, quantity |-> quantity, unit |-> unit, vendor |-> vendor,
     confidence |-> confidence, price |-> PriceOf(line)]

\* the fields the dispatch takes from the groups of a match of pattern k
PatternFields(k, groups) ==
    IF PatternHasX(k)
    THEN IF PatternStartsWithQuantity(k)
         THEN [name |-> Strip(groups[2]), quantity |-> ParseFloat(groups[1]),
               unit |-> <<"e","a">>]
         ELSE [name |-> Strip(groups[1]), quantity |-> ParseFloat(groups[2]),
               unit |-> <<"e","a">>]
    ELSE IF PatternHasDollar(k)
    THEN [name |-> Strip(groups[1]), quantity |-> Frac(1, 1), unit |-> <<"e","a">>]
    ELSE IF PatternStartsWithOrdinal(k)
    THEN [name |-> Strip(groups[1]), quantity |-> Frac(1, 1), unit |-> <<"e","a">>]
    ELSE [name |-> Strip(groups[1]), quantity |-> ParseFloat(groups[2]),
          unit |-> IF Len(groups) > 2 /\ groups[3] # None /\ groups[3] # <<>>
                   THEN Lower(groups[3]) ELSE <<"e","a">>]

\* the pattern loop on one line: the patterns that match and leave a usable
\* name; the first of them produces the candidate
UsablePatterns(line) ==
    {k \in 1..NumPatterns :
       LET m == restaurant_patterns(k, line)
       IN m.ok /\ NameOk(CleanName(PatternFields(k, m.groups).name))}

PatternItem(line, vendor) ==
    LET k == MinOf(UsablePatterns(line))
        f == PatternFields(k, restaurant_patterns(k, line).groups)
    IN Item(CleanName(f.name), f.quantity, f.unit, vendor, PatternConfidence, line)

\* re.match(r'^\d+(?:\.\d+)?$', part)
IsNumberToken(part) ==
    /\ part # <<>>
    /\ IsDigit(part[1])
    /\ QuantityEnd(part, 1) = Len(part) + 1

\* the generic extraction of a line no pattern produced a candidate for:
\* the sequence of the candidates appended (none or one)
GenericItems(line, vendor) ==
    LET parts == SplitWords(line)
        NameAt(i) == CleanName(Join(IF i > 1 THEN SubSeq(parts, 1, i - 1)
                                    ELSE SubSeq(parts, 2, Len(parts)), <<" ">>))
        Q == {i \in 1..Len(parts) : IsNumberToken(parts[i]) /\ NameOk(NameAt(i))}
    IN IF ~AnyKeywordIn(ITEM_KEYWORDS \o RESTAURANT_ITEM_KEYWORDS, line)
          \/ Len(parts) < 2
       THEN <<>>
       ELSE IF Q # {}
       THEN <<Item(NameAt(MinOf(Q)), ParseFloat(parts[MinOf(Q)]), <<"e","a">>,
                   vendor, GenericConfidence, line)>>
       ELSE IF Len(line) >= 3 /\ NameOk(CleanName(line))
       THEN <<Item(CleanName(line), Frac(1, 1), <<"e","a">>, vendor,
                   FallbackConfidence, line)>>
       ELSE <<>>

\* the body of the loop over item_lines for one line
ExtractLine(line, vendor) ==
    IF UsablePatterns(line) # {} THEN <<PatternItem(line, vendor)>>
    ELSE GenericItems(line, vendor)

\* lines 485-648: the candidates of all item lines, in line order
RECURSIVE ExtractAll(_, _)
ExtractAll(item_lines, vendor) ==
    IF item_lines = <<>> THEN <<>>
    ELSE ExtractLine(item_lines[1], vendor) \o ExtractAll(Tail(item_lines), vendor)

ExtractCandidates(text) ==
    LET lines == SplitLines(text)
    IN ExtractAll(filter_item_lines(lines), extract_vendor_info(lines).name)

(***************************************************************************)
(* parse_invoice_items: removal of duplicates                              *)
(***************************************************************************)
\* list.sort(key=confidence, reverse=True): a stable sort, items of equal
\* confidence keep their order
\* a sort that is not stable: an item goes before the items of its confidence
RECURSIVE InsertBeforeEqual(_, _)
InsertBeforeEqual(sorted, item) ==
    IF sorted = <<>> THEN <<item>>
    ELSE IF sorted[1].confidence > item.confidence
         THEN <<sorted[1]>> \o InsertBeforeEqual(Tail(sorted), item)
         ELSE <<item>> \o sorted

RECURSIVE InsertByConfidence(_, _)
InsertByConfidence(sorted, item) ==
    IF sorted = <<>> THEN <<item>>
    ELSE IF sorted[1].confidence >= item.confidence
         THEN <<sorted[1]>> \o InsertByConfidence(Tail(sorted), item)
         ELSE <<item>> \o sorted

RECURSIVE SortByConfidence(_)
SortByConfidence(items) ==
    IF items = <<>> THEN <<>>
    ELSE InsertByConfidence(SortByConfidence(SubSeq(items, 1, Len(items) - 1)),
                            items[Len(items)])

\* item['name'].lower().strip()
NormName(name) == Strip(Lower(name))

\* a walk that compares the names as written, not normalized
RECURSIVE DedupWalkRawNames(_, _)
DedupWalkRawNames(items, seen_names) ==
    IF items = <<>> THEN <<>>
    ELSE IF items[1].name \in seen_names
         THEN DedupWalkRawNames(Tail(items), seen_names)
         ELSE <<items[1]>>
              \o DedupWalkRawNames(Tail(items), seen_names \cup {items[1].name})

\* the walk over the sorted items with the set seen_names
RECURSIVE DedupWalk(_, _)
DedupWalk(items, seen_names) ==
    IF items = <<>> THEN <<>>
    ELSE IF NormName(items[1].name) \in seen_names
         THEN DedupWalk(Tail(items), seen_names)
         ELSE <<items[1]>>
              \o DedupWalk(Tail(items), seen_names \cup {NormName(items[1].name)})

(***************************************************************************)
(* match_items_to_inventory                                                *)
(***************************************************************************)
\* the threshold of line 780
MatchThreshold == Frac(1, 2)

WordSet(name) == Range(SplitWords(name))

\* the similarity score of a lowercased candidate name and a lowercased
\* inventory name
PairScore(potential_name, inventory_name) ==
    IF potential_name = inventory_name THEN Frac(1, 1)
    ELSE IF IsIn(potential_name, inventory_name) \/ IsIn(inventory_name, potential_name)
    THEN Frac(4, 5)
    ELSE LET potential_words == WordSet(potential_name)
             inventory_words == WordSet(inventory_name)
             common_words == potential_words \cap inventory_words
             np == Cardinality(potential_words)
             ni == Cardinality(inventory_words)
         IN IF common_words # {}
            THEN Frac(Cardinality(common_words), IF np >= ni THEN np ELSE ni)
            ELSE Frac(0, 1)

\* a loop that keeps the last row that scores, not the best
RECURSIVE LastMatch(_, _, _, _)
LastMatch(potential_name, inventory_items, j, best) ==
    IF j > Len(inventory_items) THEN best
    ELSE LET score == PairScore(potential_name, Lower(inventory_items[j].name))
         IN LastMatch(potential_name, inventory_items, j + 1,
                      IF FracLt(Frac(0, 1), score)
                      THEN [match |-> inventory_items[j], score |-> score]
                      ELSE best)

\* the loop over inventory_items from position j on, with the best so far
RECURSIVE BestMatch(_, _, _, _)
BestMatch(potential_name, inventory_items, j, best) ==
    IF j > Len(inventory_items) THEN best
    ELSE LET score == PairScore(potential_name, Lower(inventory_items[j].name))
         IN BestMatch(potential_name, inventory_items, j + 1,
                      IF FracLt(best.score, score)
                      THEN [match |-> inventory_items[j], score |-> score]
                      ELSE best)

BestOf(potential_item, inventory_items) ==
    BestMatch(Lower(potential_item.name), inventory_items, 1,
              [match |-> None, score |-> Frac(0, 1)])

\* thresholds other than best_score >= 0.5
IsMatchStrict(best) == FracLt(MatchThreshold, best.score)
IsMatchLowFloor(best) == FracLe(Frac(3, 10), best.score)

\* whether the candidate gets an entry of the returned dict
IsMatch(best) == FracLe(MatchThreshold, best.score)

\* a matcher that records an entry for every candidate
MatchEveryCandidate(potential_items, inventory_items) ==
    LET best(i) == BestOf(potential_items[i + 1], inventory_items)
    IN [i \in 0..(Len(potential_items) - 1) |->
          [id |-> IF best(i).match = None THEN None ELSE best(i).match.id,
           name |-> IF best(i).match = None THEN None ELSE best(i).match.name,
           score |-> best(i).score]]

\* the returned dict: its keys are the 0-based indices of the candidates
\* that have a match
match_items_to_inventory(potential_items, inventory_items) ==
    LET best(i) == BestOf(potential_items[i + 1], inventory_items)
        keys == {i \in 0..(Len(potential_items) - 1) : IsMatch(best(i))}
    IN [i \in keys |-> [id |-> best(i).match.id,
                        name |-> best(i).match.name,
                        score |-> best(i).score]]

(***************************************************************************)
(* The match result of the data model: what a candidate's entry, or its    *)
(* absence, means to the caller that renders the review                    *)
(***************************************************************************)
UpdateThreshold == Frac(7, 10)

\* inventoryItemId is optional: the empty set, or the set of the one id
MatchResult(matches, i) ==
    IF i \notin DOMAIN matches
    THEN [inventoryItemId |-> {}, score |-> Frac(0, 1), suggestedAction |-> "add_new"]
    ELSE [inventoryItemId |-> {matches[i].id}, score |-> matches[i].score,
          suggestedAction |-> IF FracLe(UpdateThreshold, matches[i].score)
                              THEN "update" ELSE "review"]

(***************************************************************************)
(* The texts and the item tables the model runs the engine on              *)
(***************************************************************************)
InvoiceLines ==
    << <<"T","o","m","a","t","o","e","s"," ","5"," ","k","g"," ","$","1","2",".","9","9">>,
       <<"1","."," ","C","h","i","c","k","e","n"," ","2"," ","k","g"," ","$","1","8",".","9","9">>,
       <<"R","i","c","e"," ","x"," ","2">>,
       <<"r","i","c","e"," ","3"," ","k","g">>,
       <<"O","l","i","v","e"," ","O","i","l">>,
       <<"3"," ","o","l","i","v","e"," ","o","i","l">>,
       <<"2"," ","x"," ","O","l","i","v","e"," ","O","i","l">>,
       <<"A"," ","x"," ","2">>,
       <<"T","o","t","a","l",":"," ","$","9",".","5","0">>,
       <<"T","e","l",":"," ","(","5","5","5",")"," ","1","2","3","-","4","5","6","7">>,
       <<"C","o","f","f","e","e"," ","2"," ","k","g">>,
       <<"V","e","n","d","o","r",":"," ","T","e","s","t"," ","R","e","s","t","a","u","r","a","n","t">> >>

\* "rice", " Rice ", "Oil Olive", "oil lamp", "olive", "big oil can", ""
InventoryNames ==
    << <<"r","i","c","e">>,
       <<" ","R","i","c","e"," ">>,
       <<"O","i","l"," ","O","l","i","v","e">>,
       <<"o","i","l"," ","l","a","m","p">>,
       <<"o","l","i","v","e">>,
       <<"b","i","g"," ","o","i","l"," ","c","a","n">>,
       <<>> >>

RECURSIVE SeqsUpTo(_, _)
SeqsUpTo(S, n) ==
    IF n = 0 THEN {<<>>}
    ELSE SeqsUpTo(S, n - 1)
         \cup {Append(q, x) : q \in {r \in SeqsUpTo(S, n - 1) : Len(r) = n - 1}, x \in S}

\* the OCR texts: up to MaxLines lines joined by newlines
Texts == {Join(doc, <<"\n">>) : doc \in SeqsUpTo(Range(InvoiceLines), MaxLines)}

\* Item.query.all() as dicts: rows in id order
RECURSIVE RowsOf(_, _)
RowsOf(ids, from) ==
    IF from > Len(InventoryNames) THEN <<>>
    ELSE (IF from \in ids THEN <<[id |-> from, name |-> InventoryNames[from]]>> ELSE <<>>)
         \o RowsOf(ids, from + 1)

Inventories ==
    {RowsOf(ids, 1) : ids \in {I \in SUBSET (1..Len(InventoryNames)) : Cardinality(I) <= MaxInv}}

(***************************************************************************)
(* The argument text_data of parse_invoice_items: a str, None or a dict.   *)
(* A dict is told by the set of its keys and the values of 'full_text' and *)
(* 'text'                                                                  *)
(***************************************************************************)
StrData(s) ==
    [type |-> "str", value |-> s, keys |-> {}, full_text |-> <<>>, text |-> <<>>]
NoneData ==
    [type |-> "NoneType", value |-> None, keys |-> {}, full_text |-> <<>>, text |-> <<>>]
DictData(keys, full, text) ==
    [type |-> "dict", value |-> <<>>, keys |-> keys, full_text |-> full, text |-> text]

\* lines 485-491: the value bound to full_text
FullTextOf(data) ==
    IF data.type = "dict"
    THEN IF "full_text" \in data.keys THEN data.full_text ELSE <<>>
    ELSE data.value

\* line 494: full_text.split raises AttributeError when full_text is None
SplitRaises(text) == text = None

(***************************************************************************)
(* The inputs of a direct call of parse_invoice_items                      *)
(***************************************************************************)
\* lines of the text of one call
ParseMaxLines == 2

\* "Tomatoes 5 kg $12.99", "Rice x 2", "rice 3 kg", "Olive Oil",
\* "3 olive oil", "Oil", "A x 2", "1. 2.5 x 3", "Tel: (555) 123-4567",
\* "Rice 555-123-4567", "Coffee 2 kg", "Vendor: Test Restaurant"
ParseLines ==
    << <<"T","o","m","a","t","o","e","s"," ","5"," ","k","g"," ","$","1","2",".","9","9">>,
       <<"R","i","c","e"," ","x"," ","2">>,
       <<"r","i","c","e"," ","3"," ","k","g">>,
       <<"O","l","i","v","e"," ","O","i","l">>,
       <<"3"," ","o","l","i","v","e"," ","o","i","l">>,
       <<"O","i","l">>,
       <<"A"," ","x"," ","2">>,
       <<"1","."," ","2",".","5"," ","x"," ","3">>,
       <<"T","e","l",":"," ","(","5","5","5",")"," ","1","2","3","-","4","5","6","7">>,
       <<"R","i","c","e"," ","5","5","5","-","1","2","3","-","4","5","6","7">>,
       <<"C","o","f","f","e","e"," ","2"," ","k","g">>,
       <<"V","e","n","d","o","r",":"," ","T","e","s","t"," ","R","e","s","t","a","u","r","a","n","t">> >>

ParseTexts == {Join(doc, <<"\n">>) : doc \in SeqsUpTo(Range(ParseLines), ParseMaxLines)}

\* a str, None, a dict with the text under 'full_text', a dict without that
\* key and a dict whose 'full_text' is None
ParseInputs ==
    {StrData(t) : t \in ParseTexts}
    \cup {DictData({"full_text"}, t, <<>>) : t \in ParseTexts}
    \cup {NoneData, DictData({}, <<>>, <<>>), DictData({"full_text"}, None, <<>>)}

(***************************************************************************)
(* extract_text_from_image                                                 *)
(***************************************************************************)
\* the text of fallback_ocr_text
dummy_text ==
    Join(<< <<"R","E","S","T","A","U","R","A","N","T"," ","I","N","V","O","I","C","E">>,
            <<" "," "," "," ">>,
            <<" "," "," "," ","V","e","n","d","o","r",":"," ","T","e","s","t"," ","R","e","s","t","a","u","r","a","n","t">>,
            <<" "," "," "," ","D","a","t","e",":"," ","2","0","2","5","-","0","4","-","2","1">>,
            <<" "," "," "," ","I","n","v","o","i","c","e"," ","#",":"," ","I","N","V","1","2","3","4","5">>,
            <<" "," "," "," ">>,
            <<" "," "," "," ","1","."," ","T","o","m","a","t","o","e","s"," ","5"," ","k","g"," ","$","1","2",".","9","9">>,
            <<" "," "," "," ","2","."," ","O","n","i","o","n","s"," ","3"," ","k","g"," ","$","8",".","5","0">>,
            <<" "," "," "," ","3","."," ","P","o","t","a","t","o","e","s"," ","1","0"," ","k","g"," ","$","1","5",".","0","0">>,
            <<" "," "," "," ","4","."," ","C","h","i","c","k","e","n"," ","2"," ","k","g"," ","$","1","8",".","9","9">>,
            <<" "," "," "," ","5","."," ","R","i","c","e"," ","5"," ","k","g"," ","$","2","2",".","5","0">>,
            <<" "," "," "," ","6","."," ","C","o","o","k","i","n","g"," ","O","i","l"," ","2"," ","b","o","t","t","l","e","s"," ","$","9",".","9","9">>,
            <<" "," "," "," ","7","."," ","S","a","l","t"," ","1"," ","k","g"," ","$","3",".","5","0">>,
            <<" "," "," "," ","8","."," ","P","e","p","p","e","r"," ","5","0","0"," ","g"," ","$","4",".","9","9">>,
            <<" "," "," "," ","9","."," ","G","a","r","l","i","c"," ","1"," ","k","g"," ","$","7",".","5","0">>,
            <<" "," "," "," ","1","0","."," ","G","i","n","g","e","r"," ","5","0","0"," ","g"," ","$","5",".","9","9">>,
            <<" "," "," "," ">>,
            <<" "," "," "," ","S","u","b","t","o","t","a","l",":"," ","$","1","1","0",".","9","5">>,
            <<" "," "," "," ","T","a","x",":"," ","$","8",".","8","8">>,
            <<" "," "," "," ","T","o","t","a","l",":"," ","$","1","1","9",".","8","3">>,
            <<" "," "," "," ">> >>, <<"\n">>)

fallback_ocr_text == DictData({"full_text", "annotations", "raw_response"}, dummy_text, <<>>)

\* what the backends meet: the Vision API answers, the credentials are
\* missing, the API call raises, the API answers with an error
OcrConditions == {"vision_ok", "no_credentials", "api_raised", "api_error"}

\* the texts printed on the uploaded images: one line at most
ImageTexts == {Join(doc, <<"\n">>) : doc \in SeqsUpTo(Range(ParseLines), 1)}

\* the dict returned: the Vision result, the pytesseract result (line 246)
\* or the fallback text
OcrResult(condition, tesseract_works, image_text) ==
    IF condition = "vision_ok"
    THEN DictData({"full_text", "annotations", "raw_response"}, image_text, <<>>)
    ELSE IF condition = "no_credentials" /\ tesseract_works
    THEN DictData({"text", "source", "timestamp"}, <<>>, image_text)
    ELSE fallback_ocr_text

OcrSource(condition, tesseract_works) ==
    IF condition = "vision_ok" THEN "vision"
    ELSE IF condition = "no_credentials" /\ tesseract_works THEN "pytesseract"
    ELSE "fallback"

(***************************************************************************)
(* The upload handler: parse_invoice_items on the OCR text, then           *)
(* match_items_to_inventory on the parsed candidates and the item table    *)
(***************************************************************************)
VARIABLES
    pc,               \* position of the handler
    ocr_source,       \* the backend the text of the upload comes from
    text_data,        \* the argument of parse_invoice_items
    full_text,        \* the OCR text
    item_lines,       \* the list filter_item_lines returns
    vendor_info,      \* the dict extract_vendor_info returns
    potential_items,  \* the list potential_items of parse_invoice_items
    filtered_items,   \* the list parse_invoice_items returns
    inventory_items,  \* the rows the handler reads for matching
    matches,          \* the dict match_items_to_inventory returns
    response,         \* the status of the handler's response, 0 before it
    vendor_lines,     \* two lists of lines handed to extract_vendor_info
    vendor_result,    \* the dict extract_vendor_info returns for each of them
    DEBUG_MODE,       \* the module-level flag DEBUG_MODE of ocr_module
    upload_reqs,      \* the upload requests in progress, one record each
    items,            \* the rows of the table item
    changes,          \* the rows of the table inventory_change, in insertion order
    item_reqs,        \* the item requests in progress, one record each
    users,            \* the rows of the table user
    user_reqs,        \* the register requests in progress, one record each
    tokens,           \* the identities of the access tokens login has issued
    api_response      \* the last response of a user-management handler

engine_vars == <<pc, ocr_source, text_data, full_text, item_lines, vendor_info,
                 potential_items, filtered_items, inventory_items, matches, response>>
vendor_vars == <<vendor_lines, vendor_result>>
upload_vars == <<DEBUG_MODE, upload_reqs>>
inventory_vars == <<items, changes, item_reqs>>
user_vars == <<users, user_reqs, tokens, api_response>>
server_vars == <<vendor_vars, upload_vars, inventory_vars, user_vars>>

vars == <<engine_vars, server_vars>>

\* the parts of the state a specification does not run
VendorIdle == vendor_lines = <<>> /\ vendor_result = <<>>
UploadIdle == DEBUG_MODE = FALSE /\ upload_reqs = <<>>
InventoryIdle == items = <<>> /\ changes = <<>> /\ item_reqs = <<>>
UsersIdle == users = <<>> /\ user_reqs = <<>> /\ tokens = {} /\ api_response = <<>>
ServerIdle == VendorIdle /\ UploadIdle /\ InventoryIdle /\ UsersIdle

NoVendorInfo == [name |-> <<>>, invoice_number |-> <<>>]

\* parse_invoice_items on a str, after line 491
Init ==
    /\ pc = "uploaded"
    /\ ocr_source = "vision"
    /\ full_text \in Texts
    /\ text_data = StrData(full_text)
    /\ item_lines = <<>>
    /\ vendor_info = NoVendorInfo
    /\ potential_items = <<>>
    /\ filtered_items = <<>>
    /\ inventory_items = <<>>
    /\ matches = <<>>
    /\ response = 0
    /\ ServerIdle

\* the handler calls extract_text_from_image on the saved file
ExtractText ==
    /\ pc = "saved"
    /\ \E condition \in OcrConditions, tesseract_works \in BOOLEAN, image_text \in ImageTexts :
         /\ text_data' = OcrResult(condition, tesseract_works, image_text)
         /\ ocr_source' = OcrSource(condition, tesseract_works)
    /\ pc' = "called"
    /\ UNCHANGED <<full_text, item_lines, vendor_info, potential_items,
                   filtered_items, inventory_items, matches, response>>
    /\ UNCHANGED server_vars

\* parse_invoice_items, lines 485-494: full_text is read from text_data and
\* split; the split of None raises
ReadTextData ==
    /\ pc = "called"
    /\ full_text' = FullTextOf(text_data)
    /\ pc' = IF SplitRaises(full_text') THEN "raised" ELSE "uploaded"
    /\ UNCHANGED <<ocr_source, text_data, item_lines, vendor_info, potential_items,
                   filtered_items, inventory_items, matches, response>>
    /\ UNCHANGED server_vars

\* parse_invoice_items up to the end of the loop over item_lines
ExtractItems ==
    /\ pc = "uploaded"
    /\ item_lines' = filter_item_lines(SplitLines(full_text))
    /\ vendor_info' = extract_vendor_info(SplitLines(full_text))
    /\ potential_items' = ExtractCandidates(full_text)
    /\ pc' = "extracted"
    /\ UNCHANGED <<ocr_source, text_data, full_text, filtered_items,
                   inventory_items, matches, response>>
    /\ UNCHANGED server_vars

\* parse_invoice_items from the sort to the return
DedupItems ==
    /\ pc = "extracted"
    /\ potential_items' = SortByConfidence(potential_items)
    /\ filtered_items' = DedupWalk(potential_items', {})
    /\ pc' = "parsed"
    /\ UNCHANGED <<ocr_source, text_data, full_text, item_lines, vendor_info,
                   inventory_items, matches, response>>
    /\ UNCHANGED server_vars

\* the handler reads the item table and matches the candidates against it
MatchItems ==
    /\ pc = "parsed"
    /\ \E rows \in Inventories :
         /\ inventory_items' = rows
         /\ matches' = match_items_to_inventory(filtered_items, rows)
    /\ pc' = "matched"
    /\ UNCHANGED <<ocr_source, text_data, full_text, item_lines, vendor_info,
                   potential_items, filtered_items, response>>
    /\ UNCHANGED server_vars

\* the handler answers: 200 with the candidates and the matches, 500 from
\* the except clause of line 691
Respond ==
    /\ pc \in {"matched", "raised"}
    /\ response' = IF pc = "raised" THEN 500 ELSE 200
    /\ pc' = "responded"
    /\ UNCHANGED <<ocr_source, text_data, full_text, item_lines, vendor_info,
                   potential_items, filtered_items, inventory_items, matches>>
    /\ UNCHANGED server_vars

Next == ExtractItems \/ DedupItems \/ MatchItems

Spec == Init /\ [][Next]_vars

(***************************************************************************)
(* A direct call of parse_invoice_items                                    *)
(***************************************************************************)
ParseInit ==
    /\ pc = "called"
    /\ ocr_source = "vision"
    /\ text_data \in ParseInputs
    /\ full_text = <<>>
    /\ item_lines = <<>>
    /\ vendor_info = NoVendorInfo
    /\ potential_items = <<>>
    /\ filtered_items = <<>>
    /\ inventory_items = <<>>
    /\ matches = <<>>
    /\ response = 0
    /\ ServerIdle

ParseNext == ReadTextData \/ ExtractItems \/ DedupItems

ParseSpec == ParseInit /\ [][ParseNext]_vars

(***************************************************************************)
(* The upload handler from the saved file to its response                  *)
(***************************************************************************)
UploadInit ==
    /\ pc = "saved"
    /\ ocr_source = "none"
    /\ text_data = NoneData
    /\ full_text = <<>>
    /\ item_lines = <<>>
    /\ vendor_info = NoVendorInfo
    /\ potential_items = <<>>
    /\ filtered_items = <<>>
    /\ inventory_items = <<>>
    /\ matches = <<>>
    /\ response = 0
    /\ ServerIdle

UploadNext ==
    ExtractText \/ ReadTextData \/ ExtractItems \/ DedupItems \/ MatchItems \/ Respond

UploadSpec == UploadInit /\ [][UploadNext]_vars

(***************************************************************************)
(* Properties                                                              *)
(***************************************************************************)
Parsed == pc \in {"parsed", "matched"}
Matched == pc = "matched"

\* the candidate of the returned list that the dict key i stands for
Candidate(i) == filtered_items[i + 1]
CandidateKeys == 0..(Len(filtered_items) - 1)

\* C1: in every list parse_invoice_items returns, no two candidates have the
\* same normalized (lowercased, trimmed) name
C1_UniqueNormalizedNames ==
    Parsed =>
      \A i, j \in 1..Len(filtered_items) :
        i # j => NormName(filtered_items[i].name) # NormName(filtered_items[j].name)

\* two extracted candidates whose names differ as written and agree once
\* normalized, one of which was dropped
C1_Witness ==
    /\ pc = "parsed"
    /\ Len(filtered_items) < Len(potential_items)
    /\ \E i, j \in 1..Len(potential_items) :
         /\ potential_items[i].name # potential_items[j].name
         /\ NormName(potential_items[i].name) = NormName(potential_items[j].name)

\* the position, in the list as extracted, of the candidate the claim says is
\* kept for the normalized name n: the highest confidence, and among those
\* the earliest line
KeptIndex(extracted, n) ==
    LET S == {i \in 1..Len(extracted) : NormName(extracted[i].name) = n}
        Top == {i \in S : \A j \in S : extracted[j].confidence <= extracted[i].confidence}
    IN MinOf(Top)

KeepsBest(extracted, kept) ==
    \A e \in 1..Len(extracted) :
      LET n == NormName(extracted[e].name)
          K == {k \in 1..Len(kept) : NormName(kept[k].name) = n}
      IN /\ Cardinality(K) = 1
         /\ \A k \in K : kept[k] = extracted[KeptIndex(extracted, n)]

\* C2: among the extracted candidates that share a normalized name, the
\* deduplication step keeps exactly the one with the highest confidence, and
\* among those of the highest confidence the one of the earliest line
C2_DedupKeepsBest ==
    [][pc = "extracted" => KeepsBest(potential_items, filtered_items')]_vars

\* two lines gave candidates of one normalized name and one confidence that
\* differ as records, and one of them was dropped
C2_Witness ==
    /\ pc = "parsed"
    /\ Len(filtered_items) < Len(potential_items)
    /\ \E i, j \in 1..Len(potential_items) :
         /\ i < j
         /\ NormName(potential_items[i].name) = NormName(potential_items[j].name)
         /\ potential_items[i].confidence = potential_items[j].confidence
         /\ potential_items[i] # potential_items[j]

C4_ExactNameLaw ==
    Matched =>
      \A i \in CandidateKeys : \A r \in 1..Len(inventory_items) :
        NormName(Candidate(i).name) = NormName(inventory_items[r].name) =>
          /\ i \in DOMAIN matches
          /\ matches[i].score = Frac(1, 1)
          /\ MatchResult(matches, i).suggestedAction = "update"
          /\ NormName(matches[i].name) = NormName(Candidate(i).name)

\* C5: a score of 1.0 is reported only when the normalized names of the
\* candidate and of the matched inventory item are equal
C5_ScoreOneOnlyForEqualNames ==
    Matched =>
      \A i \in DOMAIN matches :
        matches[i].score = Frac(1, 1) =>
          NormName(Candidate(i).name) = NormName(matches[i].name)

ClaimedPairScore(a, b) ==
    LET A == Range(SplitWords(a))
        B == Range(SplitWords(b))
        larger == IF Cardinality(A) >= Cardinality(B) THEN Cardinality(A) ELSE Cardinality(B)
    IN CASE a = b -> Frac(1, 1)
         [] a # b /\ (IsIn(a, b) \/ IsIn(b, a)) -> Frac(4, 5)
         [] OTHER -> IF A = {} \/ B = {} \/ A \cap B = {} THEN Frac(0, 1)
                     ELSE Frac(Cardinality(A \cap B), larger)

ClaimedScores(i) ==
    {ClaimedPairScore(Lower(Candidate(i).name), Lower(inventory_items[r].name)) :
       r \in 1..Len(inventory_items)}

\* C7: the score reported for a candidate is the maximum, over the inventory
\* items, of the pair score (1.0 equal, 0.8 substring, else word overlap)
C7_ScoreIsMaximum ==
    Matched =>
      \A i \in DOMAIN matches :
        /\ matches[i].score \in ClaimedScores(i)
        /\ \A sc \in ClaimedScores(i) : FracLe(sc, matches[i].score)

\* a reported score that is a word overlap and is not the score of the last
\* item of the inventory
C7_Witness ==
    /\ Matched
    /\ Len(inventory_items) = 2
    /\ \E i \in DOMAIN matches :
         /\ matches[i].score = Frac(1, 2)
         /\ FracLt(PairScore(Lower(Candidate(i).name), Lower(inventory_items[2].name)),
                   Frac(1, 2))
         /\ FracLt(Frac(0, 1),
                   PairScore(Lower(Candidate(i).name), Lower(inventory_items[2].name)))

\* the best score of candidate i over the inventory, 0 for an empty inventory
BestScoreOf(i) ==
    LET S == ClaimedScores(i) \cup {Frac(0, 1)}
    IN CHOOSE sc \in S : \A o \in S : FracLe(o, sc)

C9_TomatoesLine ==
    (Parsed /\ full_text = InvoiceLines[1]) =>
      /\ Len(filtered_items) = 1
      /\ filtered_items[1].name = <<"T","o","m","a","t","o","e","s">>
      /\ filtered_items[1].quantity = Frac(5, 1)
      /\ filtered_items[1].unit = <<"k","g">>
      /\ filtered_items[1].price = <<"$","1","2",".","9","9">>
      /\ filtered_items[1].confidence = PatternConfidence

\* C10: the numbered line "1. Chicken 2 kg $18.99" yields the candidate with
\* name "Chicken" (the ordinal stripped), quantity 2 and unit "kg"
C10_NumberedChickenLine ==
    (Parsed /\ full_text = InvoiceLines[2]) =>
      /\ Len(filtered_items) = 1
      /\ filtered_items[1].name = <<"C","h","i","c","k","e","n">>
      /\ filtered_items[1].quantity = Frac(2, 1)
      /\ filtered_items[1].unit = <<"k","g">>

(***************************************************************************)
(* Properties of a direct call of parse_invoice_items and of the upload    *)
(***************************************************************************)
Extracted == pc \in {"extracted", "parsed", "matched", "responded"}
Returned == pc \in {"parsed", "matched", "responded"}

\* the lines of the text parse_invoice_items works on
TextLines == SplitLines(full_text)

\* the one classified line of a text that has exactly one
OneItemLine == Extracted /\ Len(item_lines) = 1

\* C11: parse_invoice_items returns an empty candidate list, without
\* raising, whenever the input is an empty string, None, or a dict whose
\* full_text is missing or None
C11_EmptyInputGivesEmptyList ==
    text_data \in {StrData(<<>>), NoneData, DictData({}, <<>>, <<>>),
                   DictData({"full_text"}, None, <<>>)}
      => /\ pc # "raised"
         /\ Returned => filtered_items = <<>>

\* C12: when the text of the upload comes from no OCR backend (credentials
\* missing, the Vision call raised, the API answered with an error), the
\* handler answers with an error and proposes no candidate
C12_OcrFailureIsAnError ==
    (pc = "responded" /\ ocr_source = "fallback")
      => /\ response # 200
         /\ filtered_items = <<>>

\* C13: every returned candidate has a name that is trimmed, has no run of
\* more than one whitespace character, has at least 2 characters and is
\* not a number
C13_CleanNames ==
    Returned =>
      \A i \in 1..Len(filtered_items) :
        LET name == filtered_items[i].name
        IN /\ Strip(name) = name
           /\ \A j \in 1..(Len(name) - 1) : ~(IsSpace(name[j]) /\ IsSpace(name[j + 1]))
           /\ Len(name) >= 2
           /\ ~IsDigitStr(name)
           /\ ~IsNumberToken(name)

\* "Tel: (555) 123-4567"
TelLine == <<"T","e","l",":"," ","(","5","5","5",")"," ","1","2","3","-","4","5","6","7">>

\* C14: filter_item_lines keeps no line that contains a phone-number shape,
\* whatever else the line contains; the line "Tel: (555) 123-4567" is never
\* an item line
C14_NoPhoneLineIsKept ==
    Extracted =>
      /\ \A i \in 1..Len(item_lines) : ~phone_pattern(item_lines[i])
      /\ \A i \in 1..Len(TextLines) :
           phone_pattern(TextLines[i]) => Strip(TextLines[i]) \notin Range(item_lines)
      /\ TelLine \notin Range(item_lines)

\* a text with a kept line and a line that has a phone-number shape, a
\* price shape and no definite non-item keyword
C14_Witness ==
    /\ pc = "extracted"
    /\ item_lines # <<>>
    /\ \E i \in 1..Len(TextLines) :
         /\ phone_pattern(TextLines[i])
         /\ PRICE_PATTERN(TextLines[i]).ok
         /\ ~AnyKeywordIn(DEFINITE_NON_ITEM_KEYWORDS, TextLines[i])

\* "Vendor: Test Restaurant"
VendorLine == <<"V","e","n","d","o","r",":"," ","T","e","s","t"," ","R","e","s","t","a","u","r","a","n","t">>

\* C15: for a text whose first line is "Vendor: Test Restaurant" and whose
\* other lines hold no vendor keyword, the vendor name is the text after the
\* keyword on that line, with or without the colon
C15_VendorFromKeywordLine ==
    (/\ Extracted
     /\ TextLines[1] = VendorLine
     /\ \A i \in 2..Len(TextLines) :
          ~\E n \in 1..Len(vendor_keywords) : IsIn(vendor_keywords[n], Lower(TextLines[i])))
      => vendor_info.name \in {<<":"," ","T","e","s","t"," ","R","e","s","t","a","u","r","a","n","t">>, <<"T","e","s","t"," ","R","e","s","t","a","u","r","a","n","t">>}

\* the patterns that match the line, usable name or not
MatchingPatterns(line) == {k \in 1..NumPatterns : restaurant_patterns(k, line).ok}

\* C16: the candidate of a classified line comes from the first pattern that
\* matches the line; if the cleaned name of that match is shorter than 2
\* characters or all digits, the line yields no candidate
C16_FirstMatchingPatternDecides ==
    (OneItemLine /\ pc = "extracted" /\ MatchingPatterns(item_lines[1]) # {})
      => LET line == item_lines[1]
             k == MinOf(MatchingPatterns(line))
             f == PatternFields(k, restaurant_patterns(k, line).groups)
         IN IF NameOk(CleanName(f.name))
            THEN /\ Len(potential_items) = 1
                 /\ potential_items[1].name = CleanName(f.name)
                 /\ potential_items[1].confidence = PatternConfidence
            ELSE potential_items = <<>>

\* the index of the free-form pattern 'Item Name Quantity Unit' in the list
FreeFormPattern == 5

\* C17: when the free-form pattern produces the candidate and a unit follows
\* the quantity, the candidate's unit is that unit lowercased; it is 'ea'
\* only without a unit
C17_FreeFormUnit ==
    (/\ OneItemLine /\ pc = "extracted"
     /\ UsablePatterns(item_lines[1]) # {}
     /\ MinOf(UsablePatterns(item_lines[1])) = FreeFormPattern)
      => LET groups == restaurant_patterns(FreeFormPattern, item_lines[1]).groups
         IN /\ Len(potential_items) = 1
            /\ potential_items[1].unit =
                 IF groups[3] # None /\ groups[3] # <<>>
                 THEN Lower(groups[3]) ELSE <<"e","a">>

\* C18: a price a candidate carries is a currency-shaped part of its line (it
\* starts with the currency sign or has decimals), never a bare number of
\* the line such as the quantity or an ordinal
C18_PriceIsCurrencyShaped ==
    Returned =>
      \A i \in 1..Len(filtered_items) :
        LET price == filtered_items[i].price
        IN price # None => /\ IsIn(price, full_text)
                           /\ (price[1] = "$" \/ IsIn(<<".">>, price))

\* C19: a classified line that no pattern matches and that holds an item or
\* restaurant keyword yields a candidate unless the clean-up discards the
\* name: from the first numeric token and the tokens before it (after it
\* when none precede), or, without a numeric token, from the whole line,
\* a line of a single word included
C19_KeywordFallback ==
    (/\ OneItemLine /\ pc = "extracted"
     /\ MatchingPatterns(item_lines[1]) = {}
     /\ AnyKeywordIn(ITEM_KEYWORDS \o RESTAURANT_ITEM_KEYWORDS, item_lines[1]))
      => LET line == item_lines[1]
             parts == SplitWords(line)
             N == {i \in 1..Len(parts) : IsNumberToken(parts[i])}
             q == MinOf(N)
             name == IF N = {} THEN CleanName(line)
                     ELSE CleanName(Join(IF q > 1 THEN SubSeq(parts, 1, q - 1)
                                         ELSE SubSeq(parts, 2, Len(parts)), <<" ">>))
         IN IF ~NameOk(name) THEN potential_items = <<>>
            ELSE /\ Len(potential_items) = 1
                 /\ potential_items[1].name = name
                 /\ potential_items[1].quantity =
                      IF N = {} THEN Frac(1, 1) ELSE ParseFloat(parts[q])
                 /\ potential_items[1].confidence =
                      IF N = {} THEN FallbackConfidence ELSE GenericConfidence

\* "Coffee 2 kg"
CoffeeLine == <<"C","o","f","f","e","e"," ","2"," ","k","g">>

\* C20: the line "Coffee 2 kg", a quantity+unit line whose words hold no
\* definite non-item marker as a token, is kept by filter_item_lines
C20_CoffeeLineIsKept ==
    Extracted =>
      \A i \in 1..Len(TextLines) :
        TextLines[i] = CoffeeLine => CoffeeLine \in Range(item_lines)

(***************************************************************************)
(* The engine at rest: the state of its variables in the specifications    *)
(* of the other handlers                                                   *)
(***************************************************************************)
EngineIdle ==
    /\ pc = "idle"
    /\ ocr_source = "none"
    /\ text_data = NoneData
    /\ full_text = <<>>
    /\ item_lines = <<>>
    /\ vendor_info = NoVendorInfo
    /\ potential_items = <<>>
    /\ filtered_items = <<>>
    /\ inventory_items = <<>>
    /\ matches = <<>>
    /\ response = 0

(***************************************************************************)
(* extract_vendor_info on two lists of lines that agree on the lines the   *)
(* scan covers                                                             *)
(***************************************************************************)
\* "", "Test Kitchen"
FirstLines == << <<>>, <<"T","e","s","t"," ","K","i","t","c","h","e","n">> >>

\* "", "vendor", "Vendor: Test Restaurant", "supplier ACME", "Invoice #: INV12345"
HeaderLines ==
    << <<>>,
       <<"v","e","n","d","o","r">>,
       <<"V","e","n","d","o","r",":"," ","T","e","s","t"," ","R","e","s","t","a","u","r","a","n","t">>,
       <<"s","u","p","p","l","i","e","r"," ","A","C","M","E">>,
       <<"I","n","v","o","i","c","e"," ","#",":"," ","I","N","V","1","2","3","4","5">> >>

\* what follows the scanned lines: nothing, or one line of "ACME Foods",
\* "Bobs Market", ""
TailLines ==
    {<<>>, << <<"A","C","M","E"," ","F","o","o","d","s">> >>, << <<"B","o","b","s"," ","M","a","r","k","e","t">> >>, << <<>> >>}

\* VendorScanLines lines: a first line, blank lines, and two header lines
VendorHeads ==
    {<<first>> \o [i \in 1..(VendorScanLines - 3) |-> <<>>] \o <<ninth, tenth>> :
       first \in Range(FirstLines), ninth \in Range(HeaderLines), tenth \in Range(HeaderLines)}

VendorInit ==
    /\ EngineIdle
    /\ UploadIdle /\ InventoryIdle /\ UsersIdle
    /\ \E head \in VendorHeads, tail_a \in TailLines, tail_b \in TailLines :
         vendor_lines = <<head \o tail_a, head \o tail_b>>
    /\ vendor_result = <<>>

\* extract_vendor_info is called on each of the two lists
ExtractVendorInfo ==
    /\ vendor_result = <<>>
    /\ vendor_lines # <<>>
    /\ vendor_result' = <<extract_vendor_info(vendor_lines[1]),
                          extract_vendor_info(vendor_lines[2])>>
    /\ UNCHANGED <<engine_vars, vendor_lines, upload_vars, inventory_vars, user_vars>>

VendorNext == ExtractVendorInfo

VendorSpec == VendorInit /\ [][VendorNext]_vars

\* C21: two lists of lines that agree on their first 10 lines and differ
\* only from the 11th line on yield the same vendor name and invoice number
C21_OnlyFirstTenLinesCount ==
    (/\ vendor_result # <<>>
     /\ Len(vendor_lines[1]) >= VendorScanLines
     /\ Len(vendor_lines[2]) >= VendorScanLines
     /\ SubSeq(vendor_lines[1], 1, VendorScanLines) = SubSeq(vendor_lines[2], 1, VendorScanLines))
      => /\ vendor_result[1].name = vendor_result[2].name
         /\ vendor_result[1].invoice_number = vendor_result[2].invoice_number

(***************************************************************************)
(* Concurrent requests to /api/ocr/upload: the module-level flag           *)
(* DEBUG_MODE, the debug files and the temporary files of preprocess_image *)
(***************************************************************************)
\* upload requests in progress at once
MaxUploads == 2

UploadRequests == 1..MaxUploads

\* what the request carries: no 'invoice_image' part, an empty filename, a
\* file type that is not allowed, a file that cannot be saved, a good file
UploadShapes == {"no_file_part", "empty_filename", "bad_type", "save_failed", "ok"}

\* the outcomes of extract_text_from_image: those of OcrConditions and an
\* unexpected exception caught at line 357
UploadConditions == OcrConditions \cup {"exception"}

NewUpload ==
    [at |-> "new", debug |-> FALSE, shape |-> "ok", condition |-> "none",
     source |-> "none", temp_file |-> FALSE, written |-> FALSE, status |-> 0]

\* the status of the early returns of lines 642-655 and 712, 0 when the
\* handler goes on
EarlyStatus(shape) ==
    IF shape \in {"no_file_part", "empty_filename", "bad_type"} THEN 400
    ELSE IF shape = "save_failed" THEN 500
    ELSE 0

\* lines 341-345 and 361-365: the paths that remove the preprocessed file
RemovesTempFile(condition) == condition \in {"vision_ok", "exception"}

RequestsInit ==
    /\ EngineIdle
    /\ VendorIdle /\ InventoryIdle /\ UsersIdle
    /\ DEBUG_MODE = FALSE
    /\ upload_reqs = [r \in UploadRequests |-> NewUpload]

\* lines 631-661: set_debug_mode(True) under ?debug=true, then the checks of
\* the file and its save
ReceiveUpload(r) ==
    /\ upload_reqs[r].at = "new"
    /\ \E debug \in BOOLEAN, shape \in UploadShapes :
         /\ DEBUG_MODE' = IF debug THEN TRUE ELSE DEBUG_MODE
         /\ upload_reqs' = [upload_reqs EXCEPT ![r] =
              [@ EXCEPT !.debug = debug, !.shape = shape,
                        !.status = EarlyStatus(shape),
                        !.at = IF EarlyStatus(shape) # 0 THEN "done" ELSE "saved"]]
    /\ UNCHANGED <<engine_vars, vendor_vars, inventory_vars, user_vars>>

\* extract_text_from_image, lines 209-217: preprocess_image writes a
\* temporary file, or the original path is used
StartOcr(r) ==
    /\ upload_reqs[r].at = "saved"
    /\ \E preprocessed \in BOOLEAN :
         upload_reqs' = [upload_reqs EXCEPT ![r] =
              [@ EXCEPT !.temp_file = preprocessed, !.at = "ocr"]]
    /\ UNCHANGED <<engine_vars, vendor_vars, DEBUG_MODE, inventory_vars, user_vars>>

\* extract_text_from_image, lines 219-374: the backends answer, the result
\* is saved to JSON if DEBUG_MODE is set at that moment, the temporary file
\* is removed on two of the paths
FinishOcr(r) ==
    /\ upload_reqs[r].at = "ocr"
    /\ \E condition \in UploadConditions, tesseract_works \in BOOLEAN :
         upload_reqs' = [upload_reqs EXCEPT ![r] =
              [@ EXCEPT !.condition = condition,
                        !.source = OcrSource(condition, tesseract_works),
                        !.written = DEBUG_MODE,
                        !.temp_file = IF RemovesTempFile(condition) THEN FALSE ELSE @,
                        !.at = "returned"]]
    /\ UNCHANGED <<engine_vars, vendor_vars, DEBUG_MODE, inventory_vars, user_vars>>

\* lines 668-690: the candidates are parsed and matched, set_debug_mode(False)
\* under ?debug=true, the response is sent
FinishUpload(r) ==
    /\ upload_reqs[r].at = "returned"
    /\ DEBUG_MODE' = IF upload_reqs[r].debug THEN FALSE ELSE DEBUG_MODE
    /\ upload_reqs' = [upload_reqs EXCEPT ![r] = [@ EXCEPT !.status = 200, !.at = "done"]]
    /\ UNCHANGED <<engine_vars, vendor_vars, inventory_vars, user_vars>>

RequestsNext ==
    \E r \in UploadRequests :
      ReceiveUpload(r) \/ StartOcr(r) \/ FinishOcr(r) \/ FinishUpload(r)

RequestsSpec == RequestsInit /\ [][RequestsNext]_vars

\* the requests whose call of extract_text_from_image has returned
OcrReturned(r) == upload_reqs[r].at \in {"returned", "done"} /\ upload_reqs[r].condition # "none"

\* C22: a request that switched DEBUG_MODE on has switched it off when it
\* responds, on every exit path; so the flag is off whenever no request is in
\* progress
C22_DebugFlagOffAfterResponse ==
    (\A r \in UploadRequests : upload_reqs[r].at \in {"new", "done"}) => DEBUG_MODE = FALSE

\* C23: the OCR response of a request is written to disk exactly when that
\* request asked for debug, whatever the other requests do
C23_DebugIsPerRequest ==
    \A r \in UploadRequests :
      OcrReturned(r) => upload_reqs[r].written = upload_reqs[r].debug

\* C24: when extract_text_from_image has returned, on any path, the
\* temporary preprocessed file of the call no longer exists
C24_TempFileRemoved ==
    \A r \in UploadRequests : OcrReturned(r) => upload_reqs[r].temp_file = FALSE

(***************************************************************************)
(* Properties of the text the upload handler parses                        *)
(***************************************************************************)
\* the text the backend recognised: the value under 'text' in the
\* pytesseract result, under 'full_text' in the others
RecognisedText == IF ocr_source = "pytesseract" THEN text_data.text ELSE text_data.full_text

\* C25: whichever backend produced the result of extract_text_from_image,
\* the text parse_invoice_items splits into lines is the text that backend
\* recognised
C25_ParsedTextIsRecognisedText ==
    (ocr_source \in {"vision", "pytesseract", "fallback"}
       /\ pc \in {"uploaded", "extracted", "parsed", "matched", "responded"})
      => full_text = RecognisedText

(***************************************************************************)
(* The item table and its change log under concurrent add_item,            *)
(* update_item and process_detected_items requests, and the matching of    *)
(* an upload against the table                                             *)
(***************************************************************************)
\* item requests in progress at once
MaxItemRequests == 2

ItemRequests == 1..MaxItemRequests

\* the names of the request bodies: "oil", "rice", "" and " "
OilName == <<"o","i","l">>
RiceName == <<"r","i","c","e">>
AddNames == {OilName, <<>>, <<" ">>}
\* 'name' of the body of update_item: None when the key is absent
UpdateNames == {None, <<>>, RiceName}
\* 'quantity' of the bodies
BodyQuantities == {2, 3}

\* "Rice x 2" and "Olive Oil" on two lines: the text of the upload that is
\* matched against the table
CatalogText ==
    Join(<< <<"R","i","c","e"," ","x"," ","2">>,
            <<"O","l","i","v","e"," ","O","i","l">> >>, <<"\n">>)

NewItemRequest ==
    [at |-> "new", kind |-> "none", name |-> None, has_quantity |-> FALSE,
     quantity |-> 0, item_id |-> 0, loaded_name |-> None, previous_quantity |-> 0,
     status |-> 0]

\* not data.get('name'): None and the empty string are falsy
Falsy(name) == name = None \/ name = <<>>

\* Item.query.get(item_id): the row, when it exists
HasItem(id) == id \in 1..Len(items)

\* the table after the first add_item of the server: one item, one change
InventoryInit ==
    /\ pc = "parsed"
    /\ ocr_source = "vision"
    /\ text_data = StrData(CatalogText)
    /\ full_text = CatalogText
    /\ item_lines = filter_item_lines(SplitLines(CatalogText))
    /\ vendor_info = extract_vendor_info(SplitLines(CatalogText))
    /\ potential_items = SortByConfidence(ExtractCandidates(CatalogText))
    /\ filtered_items = DedupWalk(potential_items, {})
    /\ inventory_items = <<>>
    /\ matches = <<>>
    /\ response = 0
    /\ VendorIdle /\ UploadIdle /\ UsersIdle
    /\ items = <<[id |-> 1, name |-> RiceName, quantity |-> 1]>>
    /\ changes = <<[item_id |-> 1, previous_quantity |-> 0, new_quantity |-> 1, by |-> 0]>>
    /\ item_reqs = [r \in ItemRequests |-> NewItemRequest]

\* add_item, lines 268-286, and the 'add' branch of process_detected_items,
\* lines 736-752: a falsy name is refused (400 by add_item, skipped by
\* process_detected_items), otherwise the row is inserted and committed
InsertItem(r) ==
    /\ item_reqs[r].at = "new"
    /\ \E kind \in {"add_item", "process_add"}, name \in AddNames, quantity \in BodyQuantities :
         IF Falsy(name)
         THEN /\ item_reqs' = [item_reqs EXCEPT ![r] =
                   [@ EXCEPT !.kind = kind, !.name = name, !.at = "done",
                             !.status = IF kind = "add_item" THEN 400 ELSE 200]]
              /\ UNCHANGED items
         ELSE /\ items' = Append(items, [id |-> Len(items) + 1, name |-> name,
                                         quantity |-> quantity])
              /\ item_reqs' = [item_reqs EXCEPT ![r] =
                   [@ EXCEPT !.kind = kind, !.name = name, !.has_quantity = TRUE,
                             !.quantity = quantity, !.item_id = Len(items) + 1,
                             !.at = "inserted"]]
    /\ UNCHANGED <<engine_vars, vendor_vars, upload_vars, changes, user_vars>>

\* the quantity the change row gets: add_item and update_item read
\* item.quantity after the commit, which reloads the row; the branches of
\* process_detected_items use the quantity of the body
LoggedQuantity(r) ==
    IF item_reqs[r].kind \in {"add_item", "update_item"}
    THEN items[item_reqs[r].item_id].quantity
    ELSE item_reqs[r].quantity

\* add_item, lines 288-303, and process_detected_items, lines 754-769: the
\* 'add' change is recorded
LogAdd(r) ==
    /\ item_reqs[r].at = "inserted"
    /\ changes' = Append(changes, [item_id |-> item_reqs[r].item_id,
                                   previous_quantity |-> 0,
                                   new_quantity |-> LoggedQuantity(r), by |-> r])
    /\ item_reqs' = [item_reqs EXCEPT ![r] =
         [@ EXCEPT !.at = "done", !.status = IF item_reqs[r].kind = "add_item" THEN 201 ELSE 200]]
    /\ UNCHANGED <<engine_vars, vendor_vars, upload_vars, items, user_vars>>

\* update_item, lines 308-317, and the 'update' branch of
\* process_detected_items, lines 773-780: the row is read and its quantity
\* kept as previous_quantity; 404 (or nothing done) without the row
ReadItem(r) ==
    /\ item_reqs[r].at = "new"
    /\ \E kind \in {"update_item", "process_update"}, id \in 1..(Len(items) + 1),
          name \in UpdateNames, has_quantity \in BOOLEAN, quantity \in BodyQuantities :
         /\ kind = "process_update" => (name = None /\ has_quantity)
         /\ ~has_quantity => quantity = 2
         /\ item_reqs' = [item_reqs EXCEPT ![r] =
              IF HasItem(id)
              THEN [@ EXCEPT !.kind = kind, !.name = name, !.has_quantity = has_quantity,
                             !.quantity = quantity, !.item_id = id,
                             !.loaded_name = items[id].name,
                             !.previous_quantity = items[id].quantity, !.at = "read"]
              ELSE [@ EXCEPT !.kind = kind, !.name = name, !.has_quantity = has_quantity,
                             !.quantity = quantity, !.item_id = id, !.at = "done",
                             !.status = IF kind = "update_item" THEN 404 ELSE 200]]
    /\ UNCHANGED <<engine_vars, vendor_vars, upload_vars, items, changes, user_vars>>

\* update_item, lines 320-335, and process_detected_items, lines 781-785:
\* the attributes of the body are assigned and the session is committed; the
\* UPDATE carries the columns whose value differs from the loaded one
WriteItem(r) ==
    /\ item_reqs[r].at = "read"
    /\ LET q == item_reqs[r]
           row == items[q.item_id]
       IN items' = [items EXCEPT ![q.item_id] =
            [id |-> row.id,
             name |-> IF q.name # None /\ q.name # q.loaded_name THEN q.name ELSE row.name,
             quantity |-> IF q.has_quantity /\ q.quantity # q.previous_quantity
                          THEN q.quantity ELSE row.quantity]]
    /\ item_reqs' = [item_reqs EXCEPT ![r] = [@ EXCEPT !.at = "written"]]
    /\ UNCHANGED <<engine_vars, vendor_vars, upload_vars, changes, user_vars>>

\* update_item, lines 337-352, and process_detected_items, lines 787-802:
\* the 'update' change is recorded
LogUpdate(r) ==
    /\ item_reqs[r].at = "written"
    /\ changes' = Append(changes, [item_id |-> item_reqs[r].item_id,
                                   previous_quantity |-> item_reqs[r].previous_quantity,
                                   new_quantity |-> LoggedQuantity(r), by |-> r])
    /\ item_reqs' = [item_reqs EXCEPT ![r] = [@ EXCEPT !.at = "done", !.status = 200]]
    /\ UNCHANGED <<engine_vars, vendor_vars, upload_vars, items, user_vars>>

\* Item.to_dict for the matcher
RECURSIVE TableRows(_)
TableRows(rows) ==
    IF rows = <<>> THEN <<>>
    ELSE <<[id |-> rows[1].id, name |-> rows[1].name]>> \o TableRows(Tail(rows))

\* upload_invoice_ocr, lines 672-677: the table is read and the candidates
\* of the upload are matched against it
MatchCatalog ==
    /\ pc = "parsed"
    /\ inventory_items' = TableRows(items)
    /\ matches' = match_items_to_inventory(filtered_items, inventory_items')
    /\ pc' = "matched"
    /\ UNCHANGED <<ocr_source, text_data, full_text, item_lines, vendor_info,
                   potential_items, filtered_items, response>>
    /\ UNCHANGED server_vars

InventoryNext ==
    \/ \E r \in ItemRequests :
         InsertItem(r) \/ LogAdd(r) \/ ReadItem(r) \/ WriteItem(r) \/ LogUpdate(r)
    \/ MatchCatalog

InventorySpec == InventoryInit /\ [][InventoryNext]_vars

\* C26: an inventory item whose name is empty or only whitespace is never
\* reported as the match of a candidate, after any add_item and update_item
\* calls
C26_NoBlankNameIsMatched ==
    pc = "matched" => \A i \in DOMAIN matches : Strip(matches[i].name) # <<>>

\* the changes of one item, in insertion order
RECURSIVE ChangesOf(_, _)
ChangesOf(id, log) ==
    IF log = <<>> THEN <<>>
    ELSE (IF log[1].item_id = id THEN <<log[1]>> ELSE <<>>) \o ChangesOf(id, Tail(log))

NoItemRequestInProgress == \A r \in ItemRequests : item_reqs[r].at \in {"new", "done"}

\* C29: when no request is in progress, the change log of every item is a
\* consistent chain: the first previous_quantity is 0, each later one is the
\* new_quantity of the change before it, each new_quantity is the quantity
\* its request wrote, and the last new_quantity is the item's quantity
C29_ChangeLogIsAChain ==
    NoItemRequestInProgress =>
      \A id \in 1..Len(items) :
        LET log == ChangesOf(id, changes)
        IN /\ log # <<>>
           /\ log[1].previous_quantity = 0
           /\ \A k \in 2..Len(log) : log[k].previous_quantity = log[k - 1].new_quantity
           /\ \A k \in 1..Len(log) :
                (log[k].by \in ItemRequests /\ item_reqs[log[k].by].has_quantity)
                  => log[k].new_quantity = item_reqs[log[k].by].quantity
           /\ log[Len(log)].new_quantity = items[id].quantity

(***************************************************************************)
(* User management: register, login, delete_user, update_user_profile      *)
(* (backend_api.py, lines 178-229 and 438-500)                             *)
(***************************************************************************)
MaxRegisters == 2

RegisterRequests == 1..MaxRegisters

\* Python values the handlers compare: a str and an int are never equal
PyStr(s) == [type |-> "str", value |-> s]
PyInt(n) == [type |-> "int", value |-> n]
PyEq(a, b) == a.type = b.type /\ a.value = b.value

\* str(n) of a non-negative int
RECURSIVE IntToStr(_)
IntToStr(n) ==
    IF n < 10 THEN <<DigitChars[n + 1]>>
    ELSE IntToStr(n \div 10) \o <<DigitChars[(n % 10) + 1]>>

AnnName == <<"a","n","n">>
BobName == <<"b","o","b">>
UserNames == {AnnName, BobName}

\* the email of the register body, one per username
EmailOf(name) == name \o <<"@","x">>

\* the usernames of the register bodies; the empty one is a missing field
RegisterNames == UserNames \cup {<<>>}

\* the JSON bodies of update_user_profile: without 'email', or with one
ProfileBodies ==
    {[has_email |-> FALSE, email |-> <<>>]}
    \cup {[has_email |-> TRUE, email |-> EmailOf(n)] : n \in UserNames}

\* the <int:user_id> of the path
PathIds == 1..(MaxRegisters + 1)

NewRegister == [at |-> "new", username |-> <<>>, role |-> "user", status |-> 0]

NoResponse == [handler |-> "none", identity |-> PyInt(0), user_id |-> 0, status |-> 0]

\* the rows of the table that are not deleted; the id of a row is its index
PresentIds == {i \in 1..Len(users) : users[i].present}

\* User.query.get(key): the database compares the key with the integer
\* column, a str key "1" finds the row of id 1
KeyId(key) == IF key.type = "str" THEN DigitsValue(key.value) ELSE key.value
QueryGet(key) == IF KeyId(key) \in PresentIds THEN KeyId(key) ELSE 0

\* User.query.filter_by(username=...).first() and filter_by(email=...).first()
ByUsername(name) == {i \in PresentIds : users[i].username = name}
ByEmail(email) == {i \in PresentIds : users[i].email = email}

UsersInit ==
    /\ EngineIdle
    /\ VendorIdle /\ UploadIdle /\ InventoryIdle
    /\ users = <<>>
    /\ user_reqs = [r \in RegisterRequests |-> NewRegister]
    /\ tokens = {}
    /\ api_response = NoResponse

\* register, lines 180-199: the body is validated, the username and the
\* email are looked up, the role is chosen from User.query.count()
RegisterCheck(r) ==
    /\ user_reqs[r].at = "new"
    /\ \E name \in RegisterNames :
         LET status == IF name = <<>> THEN 400
                       ELSE IF ByUsername(name) # {} \/ ByEmail(EmailOf(name)) # {}
                            THEN 409
                       ELSE 0
         IN /\ user_reqs' = [user_reqs EXCEPT ![r] =
                 [at |-> IF status = 0 THEN "checked" ELSE "done",
                  username |-> name,
                  role |-> IF status = 0 /\ PresentIds = {} THEN "admin" ELSE "user",
                  status |-> status]]
            /\ api_response' = IF status = 0 THEN api_response
                               ELSE [handler |-> "register", identity |-> PyInt(0),
                                     user_id |-> 0, status |-> status]
    /\ UNCHANGED <<engine_vars, vendor_vars, upload_vars, inventory_vars, users, tokens>>

\* register, lines 201-204: the row is inserted and committed; the unique
\* columns refuse a username another request has committed meanwhile
RegisterCommit(r) ==
    /\ user_reqs[r].at = "checked"
    /\ LET name == user_reqs[r].username
           refused == ByUsername(name) # {} \/ ByEmail(EmailOf(name)) # {}
           status == IF refused THEN 500 ELSE 201
       IN /\ users' = IF refused THEN users
                      ELSE Append(users, [id |-> Len(users) + 1, username |-> name,
                                          email |-> EmailOf(name),
                                          role |-> user_reqs[r].role, present |-> TRUE])
          /\ user_reqs' = [user_reqs EXCEPT ![r].at = "done", ![r].status = status]
          /\ api_response' = [handler |-> "register", identity |-> PyInt(0),
                              user_id |-> IF refused THEN 0 ELSE Len(users) + 1,
                              status |-> status]
    /\ UNCHANGED <<engine_vars, vendor_vars, upload_vars, inventory_vars, tokens>>

\* login, lines 206-229: the token carries identity=str(user.id)
Login ==
    \E name \in RegisterNames, password_ok \in BOOLEAN :
      LET found == ByUsername(name)
          status == IF name = <<>> THEN 400
                    ELSE IF found = {} \/ ~password_ok THEN 401
                    ELSE 200
          id == IF found = {} THEN 0 ELSE CHOOSE i \in found : TRUE
          identity == PyStr(IntToStr(id))
      IN /\ tokens' = IF status = 200 THEN tokens \cup {identity} ELSE tokens
         /\ api_response' = [handler |-> "login",
                             identity |-> IF status = 200 THEN identity ELSE PyInt(0),
                             user_id |-> id, status |-> status]
         /\ UNCHANGED <<engine_vars, vendor_vars, upload_vars, inventory_vars, users, user_reqs>>

\* delete_user, lines 440-459
DeleteUser ==
    \E admin_id \in tokens, user_id \in PathIds :
      LET admin == QueryGet(admin_id)
          user == QueryGet(PyInt(user_id))
          status == IF admin = 0 \/ users[admin].role # "admin" THEN 403
                    ELSE IF PyEq(admin_id, PyInt(user_id)) THEN 400
                    ELSE IF user = 0 THEN 404
                    ELSE 200
      IN /\ users' = IF status = 200 THEN [users EXCEPT ![user].present = FALSE]
                     ELSE users
         /\ api_response' = [handler |-> "delete_user", identity |-> admin_id,
                             user_id |-> user_id, status |-> status]
         /\ UNCHANGED <<engine_vars, vendor_vars, upload_vars, inventory_vars, user_reqs, tokens>>

\* update_user_profile, lines 464-500, for a body without 'newPassword'
UpdateUserProfile ==
    \E current_user_id \in tokens, user_id \in PathIds, data \in ProfileBodies :
      LET admin == QueryGet(current_user_id)
          user == QueryGet(PyInt(user_id))
          existing == ByEmail(data.email)
          status == IF ~PyEq(current_user_id, PyInt(user_id))
                       /\ (admin = 0 \/ users[admin].role # "admin") THEN 403
                    ELSE IF user = 0 THEN 404
                    ELSE IF data.has_email /\ existing # {} /\ existing # {user_id} THEN 409
                    ELSE 200
      IN /\ users' = IF status = 200 /\ data.has_email
                     THEN [users EXCEPT ![user].email = data.email]
                     ELSE users
         /\ api_response' = [handler |-> "update_user_profile", identity |-> current_user_id,
                             user_id |-> user_id, status |-> status]
         /\ UNCHANGED <<engine_vars, vendor_vars, upload_vars, inventory_vars, user_reqs, tokens>>

UsersNext ==
    \/ \E r \in RegisterRequests : RegisterCheck(r)
    \/ \E r \in RegisterRequests : RegisterCommit(r)
    \/ Login
    \/ DeleteUser
    \/ UpdateUserProfile

UsersSpec == UsersInit /\ [][UsersNext]_vars

\* the user the token of the last request was issued to at login
Caller == KeyId(api_response.identity)

\* C27: a DELETE /api/users/<id> request by an admin, authenticated with the
\* token issued at login, whose <id> is the admin's own id, is answered 400
\* and the admin's row remains.  Stated as: after a delete_user request of
\* an admin (one not answered 403) on the admin's own id, the status is 400
\* and the row of the admin is in the table.
C27_SelfDeletionIsRejected ==
    (/\ api_response.handler = "delete_user"
     /\ api_response.status # 403
     /\ api_response.user_id = Caller)
        => (api_response.status = 400 /\ Caller \in PresentIds)

\* C28: a non-admin user, authenticated with the token issued at login, can
\* update the own profile, and is answered 403 only when the id of the path
\* is another user's.  Stated as: after an update_user_profile request of a
\* user of role 'user', the status is 403 exactly when the path id is not
\* the caller's id.
C28_OwnProfileIsAllowed ==
    (/\ api_response.handler = "update_user_profile"
     /\ Caller \in PresentIds
     /\ users[Caller].role = "user")
        => (api_response.status = 403 <=> api_response.user_id # Caller)

\* C30: from an empty user table, under any interleaving of concurrent
\* register requests, exactly one registered user has the role admin.
\* Stated as: while no row has been deleted, a table with rows has exactly
\* one row of role 'admin'.
C30_ExactlyOneAdmin ==
    (users # <<>> /\ PresentIds = 1..Len(users))
        => Cardinality({i \in 1..Len(users) : users[i].role = "admin"}) = 1

====
